---- MODULE Spec2Model ----
(***************************************************************************)
(* Gesture pipeline of the 3D Merry Christmas scene: GestureDetector       *)
(* (src/unnamed/part_001), the zustand store (src/unnamed/part_002) and    *)
(* the mode buttons of App (src/unnamed/part_000).                         *)
(*                                                                         *)
(* Numbers.  Times are milliseconds, as Date.now() returns them.  Landmark *)
(* distances are integers in an arbitrary length unit; a ratio r of the    *)
(* source (1.6, 1.3, ...) is kept as 10*r and the comparison               *)
(* "d > handSize * r" is evaluated as "10*d > handSize * (10*r)".  Cursor  *)
(* coordinates are fixed point, CoordOne units to 1.0.                     *)
(*                                                                         *)
(* canvas.getContext('2d') is taken to succeed: the canvas is used with no *)
(* other context type, so ctx is never null in predictWebcam.              *)
(***************************************************************************)
EXTENDS Integers, Sequences, FiniteSets, TLC

VARIABLES
    mode,             \* useStore: mode
    handData,         \* useStore: handData {gesture, x, y}
    smoothedX,        \* GestureDetector ref
    smoothedY,        \* GestureDetector ref
    gestureHistory,   \* GestureDetector ref
    lastGestureTime,  \* GestureDetector ref
    lastVideoTime,    \* GestureDetector ref
    now,              \* the wall clock, last value read or elapsed
    op,               \* history: the operation that produced this state
    pushed,           \* history: every sample pushed onto gestureHistory, in order
    commitLog,        \* history: the times of the last two mode changes made by ticks
    lastChangeAt,     \* history: the time of the last change of mode, -1 if none
    clicks,           \* history: the number of button clicks
    frame,            \* history: the measures of the hand last detected
    lastWrist,        \* history: the wrist landmark of the hand last detected
    photos,           \* useStore: photos, the description of each, "" for none
    focusedPhotoId,   \* useStore: focusedPhotoId
    captionsPending,  \* per photo: calls of generateHolidayDescription not yet settled
    screenPos,        \* history: where the photos stood on the screen at the last frame
    photoSteps,       \* history: frames of the photo cloud and clicks on photos
    landmarkerPromise,\* module: 0 for null, else the number of the promise held
    promState,        \* the promises created so far: pending, resolved or rejected
    initPc,           \* per detector: where its init closure stands
    attempt,          \* per detector: the attempt argument of init
    mounted,          \* per detector: the mounted flag of the first effect
    awaiting,         \* per detector: the promise its init awaits, 0 when it awaits none
    landmarker,       \* per detector: the landmarker state, null or ready
    calls,            \* history, per detector: calls of initializeHandLandmarker
    fails,            \* history, per detector: failed attempts
    retryDelay,       \* history, per detector: delay of the last retry timer set
    camPc,            \* detector 1: where enableCam stands
    streamState,      \* detector 1: the camera stream: none, live or stopped
    srcObject,        \* detector 1: video.srcObject holds the stream
    refAttached,      \* detector 1: videoRef.current and canvasRef.current are set
    videoReady,       \* detector 1: video.videoWidth and videoHeight are not 0
    torn,             \* detector 1: the cleanup of the camera effect has run
    rafPending,       \* detector 1: animation frame callbacks scheduled
    detectCalls,      \* history, detector 1: calls of detectForVideo
    videoTime         \* history, detector 1: video.currentTime at the last tick

photoVars == <<photos, focusedPhotoId, captionsPending, screenPos, photoSteps>>

tickVars == <<mode, handData, smoothedX, smoothedY, gestureHistory, lastGestureTime,
              lastVideoTime, now, pushed, commitLog, lastChangeAt, clicks, frame,
              lastWrist, photoVars>>

initVars == <<landmarkerPromise, promState, initPc, attempt, mounted, awaiting,
              landmarker, calls, fails, retryDelay>>

camVars == <<camPc, streamState, srcObject, refAttached, videoReady, torn>>

vars == <<tickVars, op, initVars, camVars, rafPending, detectCalls, videoTime>>

-----------------------------------------------------------------------------
(* Enumerations (members as the sources use them)                          *)

GestureType == {"NONE", "OPEN_HAND", "CLOSED_FIST", "PINCH", "VICTORY", "HEART"}

AppMode == {"TREE", "TEXT", "SCATTER", "LOVE"}

-----------------------------------------------------------------------------
(* Program constants                                                       *)

OPEN_RATIO == 16
FIST_RATIO == 13
PINCH_RATIO == 5
UpRatio == 14
DownRatio == 12
ThumbRatio == 8
HistoryCap == 8
CooldownMs == 600
CoordOne == 1000
InitialCoord == 500
MaxAttempts == 3
RetryBaseMs == 1000
JitterDist == 50
FastFactor == 3
SlowFactor == 1

-----------------------------------------------------------------------------
(* Bounds of the model                                                     *)

StartNow == 1000      \* the clock at mount; Date.now() is far above CooldownMs
NumDetectors == 2     \* GestureDetector components mounted one after the other
MaxClicks == 1        \* button clicks in Spec
MaxFrames == 2        \* video frames processed in Spec
MaxStabFrames == 9    \* video frames processed in SpecStab
MaxCursorFrames == 4  \* video frames processed in SpecCursor
MaxFistFrames == 10   \* video frames processed in SpecFist
MaxTurnFrames == 2    \* video frames of SpecSmooth in which the wrist moves
MaxHoldFrames == 40   \* video frames processed in SpecSmooth

\* time elapsed between two readings of the clock in Spec
Deltas == {100, 600, 700}

\* time elapsed between the last reading of the clock and a click in Spec
ClickDeltas == {100}

-----------------------------------------------------------------------------
(* Gesture classifier: one detected hand, measured, to one raw gesture.    *)
(* A frame is [handSize, d, pinchDist, thumbDist]: d[1..4] the distances   *)
(* of the index, middle, ring and pinky tip to the wrist.                  *)

isOpen(f) == \A i \in DOMAIN f.d : 10 * f.d[i] > f.handSize * OPEN_RATIO

\* isFist with the ratio of the open hand
isFistWide(f) == \A i \in DOMAIN f.d : 10 * f.d[i] < f.handSize * OPEN_RATIO

isFist(f) == \A i \in DOMAIN f.d : 10 * f.d[i] < f.handSize * FIST_RATIO

\* isPinch with the threshold of a hand of size 10, whatever the hand
isPinchAbsolute(f) == 10 * f.pinchDist < 10 * PINCH_RATIO

isPinch(f) == 10 * f.pinchDist < f.handSize * PINCH_RATIO

indexUp(f) == 10 * f.d[1] > f.handSize * UpRatio
middleUp(f) == 10 * f.d[2] > f.handSize * UpRatio
ringDown(f) == 10 * f.d[3] < f.handSize * DownRatio
pinkyDown(f) == 10 * f.d[4] < f.handSize * DownRatio
thumbUp(f) == 10 * f.thumbDist > f.handSize * ThumbRatio
pinkyUp(f) == 10 * f.d[4] > f.handSize * UpRatio
middleDown(f) == 10 * f.d[2] < f.handSize * DownRatio

isVictory(f) == indexUp(f) /\ middleUp(f) /\ ringDown(f) /\ pinkyDown(f)

isLove(f) == thumbUp(f) /\ indexUp(f) /\ middleDown(f) /\ ringDown(f) /\ pinkyUp(f)

\* detectedGesture with the pinch tested before the fist
detectedGesturePinchFirst(f) ==
    IF isLove(f) THEN "HEART"
    ELSE IF isVictory(f) THEN "VICTORY"
    ELSE IF isPinch(f) THEN "PINCH"
    ELSE IF isFist(f) THEN "CLOSED_FIST"
    ELSE IF isOpen(f) THEN "OPEN_HAND"
    ELSE "NONE"

detectedGesture(f) ==
    IF isLove(f) THEN "HEART"
    ELSE IF isVictory(f) THEN "VICTORY"
    ELSE IF isFist(f) THEN "CLOSED_FIST"
    ELSE IF isPinch(f) THEN "PINCH"
    ELSE IF isOpen(f) THEN "OPEN_HAND"
    ELSE "NONE"

-----------------------------------------------------------------------------
(* Temporal stabilizer                                                     *)

\* PushHistory with pop() in place of shift(): the newest sample is dropped
PushHistoryPop(h, g) ==
    LET h1 == Append(h, g)
    IN  IF Len(h1) > HistoryCap THEN SubSeq(h1, 1, HistoryCap) ELSE h1

\* gestureHistory.current.push(g); if (length > 8) shift()
PushHistory(h, g) ==
    LET h1 == Append(h, g)
    IN  IF Len(h1) > HistoryCap THEN Tail(h1) ELSE h1

\* counts[g]: the reduce over the history that builds the counts object
CountOf(h, g) == Cardinality({i \in DOMAIN h : h[i] = g})

\* Object.keys(counts): the distinct gestures in the order of first occurrence
RECURSIVE KeysFrom(_, _, _)
KeysFrom(h, i, acc) ==
    IF i > Len(h) THEN acc
    ELSE IF \E j \in DOMAIN acc : acc[j] = h[i] THEN KeysFrom(h, i + 1, acc)
    ELSE KeysFrom(h, i + 1, Append(acc, h[i]))

ObjectKeys(h) == KeysFrom(h, 1, <<>>)

\* keys.reduce((a, b) => counts[a] > counts[b] ? a : b), no initial value
RECURSIVE ReduceKeys(_, _, _, _)
ReduceKeys(h, keys, i, a) ==
    IF i > Len(keys) THEN a
    ELSE ReduceKeys(h, keys, i + 1,
                    IF CountOf(h, a) > CountOf(h, keys[i]) THEN a ELSE keys[i])

\* StableGesture with >= in the reduce: the first maximum is kept
RECURSIVE ReduceKeysGE(_, _, _, _)
ReduceKeysGE(h, keys, i, a) ==
    IF i > Len(keys) THEN a
    ELSE ReduceKeysGE(h, keys, i + 1,
                      IF CountOf(h, a) >= CountOf(h, keys[i]) THEN a ELSE keys[i])

StableGestureFirstMax(h) ==
    LET keys == ObjectKeys(h) IN ReduceKeysGE(h, keys, 2, keys[1])

\* StableGesture with the branches of the reduce swapped: the minimum is kept
RECURSIVE ReduceKeysMin(_, _, _, _)
ReduceKeysMin(h, keys, i, a) ==
    IF i > Len(keys) THEN a
    ELSE ReduceKeysMin(h, keys, i + 1,
                       IF CountOf(h, a) > CountOf(h, keys[i]) THEN keys[i] ELSE a)

StableGestureMin(h) ==
    LET keys == ObjectKeys(h) IN ReduceKeysMin(h, keys, 2, keys[1])

\* StableGesture that answers the oldest sample of the window
StableGestureOldest(h) == h[1]

StableGesture(h) ==
    LET keys == ObjectKeys(h) IN ReduceKeys(h, keys, 2, keys[1])

-----------------------------------------------------------------------------
(* Mode transition: the cooldown test and the if / else-if chain.  The     *)
(* result is the mode and lastGestureTime after the chain.                 *)

\* the chain of Transition, given the result of the cooldown test and the
\* time stamp a no-op leaves
Chain(stable, currentMode, last, t, open, idle) ==
    IF open THEN
        IF stable = "HEART" /\ currentMode # "LOVE"
            THEN [mode |-> "LOVE", lastGestureTime |-> t]
        ELSE IF stable = "VICTORY" /\ currentMode # "TEXT"
            THEN [mode |-> "TEXT", lastGestureTime |-> t]
        ELSE IF stable = "CLOSED_FIST" /\ currentMode # "TREE"
            THEN [mode |-> "TREE", lastGestureTime |-> t]
        ELSE IF stable = "OPEN_HAND" /\ currentMode # "SCATTER"
            THEN [mode |-> "SCATTER", lastGestureTime |-> t]
        ELSE [mode |-> currentMode, lastGestureTime |-> idle]
    ELSE [mode |-> currentMode, lastGestureTime |-> last]

\* Transition with >= in the cooldown test
TransitionGE(stable, currentMode, last, t) ==
    Chain(stable, currentMode, last, t, t - last >= CooldownMs, last)

\* Transition without the cooldown test
TransitionNoCooldown(stable, currentMode, last, t) ==
    Chain(stable, currentMode, last, t, TRUE, last)

\* Transition with lastGestureTime.current = now after the chain, not in it
TransitionStampAlways(stable, currentMode, last, t) ==
    Chain(stable, currentMode, last, t, t - last > CooldownMs, t)

\* Transition with the time stamp missing from the branches
TransitionNoStamp(stable, currentMode, last, t) ==
    [mode |-> Chain(stable, currentMode, last, t, t - last > CooldownMs, last).mode,
     lastGestureTime |-> last]

\* Transition with the cooldown test inverted
TransitionCooldownInverted(stable, currentMode, last, t) ==
    Chain(stable, currentMode, last, t, t - last < CooldownMs, last)

Transition(stable, currentMode, last, t) ==
    IF t - last > CooldownMs THEN
        IF stable = "HEART" /\ currentMode # "LOVE"
            THEN [mode |-> "LOVE", lastGestureTime |-> t]
        ELSE IF stable = "VICTORY" /\ currentMode # "TEXT"
            THEN [mode |-> "TEXT", lastGestureTime |-> t]
        ELSE IF stable = "CLOSED_FIST" /\ currentMode # "TREE"
            THEN [mode |-> "TREE", lastGestureTime |-> t]
        ELSE IF stable = "OPEN_HAND" /\ currentMode # "SCATTER"
            THEN [mode |-> "SCATTER", lastGestureTime |-> t]
        ELSE [mode |-> currentMode, lastGestureTime |-> last]
    ELSE [mode |-> currentMode, lastGestureTime |-> last]

-----------------------------------------------------------------------------
(* Cursor smoothing                                                        *)

\* lerp that steps away from end
lerpAway(start, end, t) == (start * (10 + t) - end * t) \div 10

\* lerp that steps past end
lerpPast(start, end, t) == (end * (10 + t) - start * t) \div 10

\* start * (1 - t) + end * t, with t in tenths
lerp(start, end, t) == (start * (10 - t) + end * t) \div 10

\* lerpFactor with >= in the test of the distance
lerpFactorGE(dx, dy) ==
    IF dx * dx + dy * dy >= JitterDist * JitterDist THEN FastFactor ELSE SlowFactor

\* Math.hypot(dx, dy) > 0.05 ? 0.3 : 0.1
lerpFactor(dx, dy) ==
    IF dx * dx + dy * dy > JitterDist * JitterDist THEN FastFactor ELSE SlowFactor

-----------------------------------------------------------------------------
(* Store                                                                   *)

\* updateHandData that drops an update which does not carry every field
updateHandDataFullOnly(hd, data) ==
    IF DOMAIN hd \subseteq DOMAIN data THEN [k \in DOMAIN hd |-> data[k]] ELSE hd

\* updateHandData that replaces handData: missing fields fall back to the initial ones
updateHandDataReplace(hd, data) ==
    [k \in DOMAIN hd |->
        IF k \in DOMAIN data THEN data[k]
        ELSE IF k = "gesture" THEN "NONE" ELSE InitialCoord]

\* updateHandData: { ...state.handData, ...data }
updateHandData(hd, data) ==
    [k \in DOMAIN hd |-> IF k \in DOMAIN data THEN data[k] ELSE hd[k]]

\* setMode: set({ mode })
setMode(m) == m

-----------------------------------------------------------------------------
(* Inputs                                                                  *)

Frame(h, d, p, t) == [handSize |-> h, d |-> d, pinchDist |-> p, thumbDist |-> t]

HeartFrame == Frame(10, <<15, 11, 11, 15>>, 10, 9)
VictoryFrame == Frame(10, <<15, 15, 11, 11>>, 10, 9)
FistFrame == Frame(10, <<12, 12, 12, 12>>, 10, 9)
FistPinchFrame == Frame(10, <<12, 12, 12, 12>>, 4, 7)
PinchFrame == Frame(10, <<14, 15, 15, 14>>, 4, 9)
OpenFrame == Frame(10, <<17, 18, 18, 17>>, 10, 9)
LooseFrame == Frame(10, <<14, 15, 15, 14>>, 10, 9)

SampleFrames ==
    {HeartFrame, VictoryFrame, FistFrame, FistPinchFrame, PinchFrame, OpenFrame,
     LooseFrame}

\* one frame of each gesture
ModeFrames == SampleFrames \ {FistPinchFrame}

StabFrames == {OpenFrame, FistFrame, PinchFrame}

CursorFrames == {OpenFrame, PinchFrame}

\* wrist landmark (x, y), CoordOne units to the frame width and height
CentreWrist == [x |-> 500, y |-> 500]

Wrists == {CentreWrist, [x |-> 200, y |-> 540], [x |-> 1000, y |-> 0]}

\* SpecSmooth: the centre, a wrist at 0.05 from it, two corners of the
\* picture and a wrist far from all of them
SmoothWrists ==
    {CentreWrist, [x |-> 470, y |-> 540], [x |-> 1000, y |-> 0],
     [x |-> 0, y |-> 1000], [x |-> 200, y |-> 540]}

\* time between two video frames in SpecStab and SpecCursor
FrameMs == 100

ButtonModes == {"TREE", "TEXT", "SCATTER"}

\* SpecClassify: every fingertip distance on each side of and on each
\* threshold of a hand of size 10, pinch and thumb on and off their thresholds
Reaches == 11..17
PinchDists == {4, 5}
ThumbDists == {8, 9}
ClassifyFrames ==
    {Frame(10, <<a, b, c, e>>, p, th) :
        a \in Reaches, b \in Reaches, c \in Reaches, e \in Reaches,
        p \in PinchDists, th \in ThumbDists}

\* the same hand k times as large in the picture
ScaleFrame(f, k) ==
    Frame(k * f.handSize, [i \in DOMAIN f.d |-> k * f.d[i]],
          k * f.pinchDist, k * f.thumbDist)

ProbeScales == {1, 3}

\* the frames that come before the classified one, and the time between them
WarmFrames == {OpenFrame, FistFrame}
WarmMs == 700
ProbeDeltas == {100, 700}

\* SpecFist: hands whose raw gesture is CLOSED_FIST
FistFrames == {FistFrame, FistPinchFrame}

\* the reach of a pinch on the screen, 0.2, in thousandths
FocusDist == 200

\* frames of the photo cloud and clicks on photos in SpecPhoto
MaxPhotoSteps == 4

\* frames of the video in SpecPhoto
MaxPhotoTicks == 3

\* the photos of the store in the order of the array, which is the order
\* in which the items register in itemsRef
PhotoOrder == <<"a", "b">>

PhotoIds == {PhotoOrder[i] : i \in DOMAIN PhotoOrder}

\* focusedPhotoId: null
NoPhoto == "null"

\* description: undefined
NoDescription == ""

\* what the promise of generateHolidayDescription resolves to with a key
\* set: the text of the model, the text in place of an empty answer, the
\* text of the catch
CaptionTexts ==
    {"a wish in two lines", "Merry Christmas!", "A magical Christmas memory."}

\* a point of the screen, in thousandths of its width and height
Point(px, py) == [x |-> px, y |-> py]

CentrePoint == Point(500, 500)

\* where a photo stands at a frame: at 0.1 from the centre, at 0.2 from it,
\* and a thousandth nearer than that
NearPoint == Point(600, 500)
EdgePoint == Point(620, 660)
InsidePoint == Point(619, 660)

\* where the two photos stand at a frame: at the same distance, both on the
\* edge of the reach, the second inside it and the first on the edge, the
\* second nearer than the first
Placing(pa, pb) == [id \in PhotoIds |-> IF id = PhotoOrder[1] THEN pa ELSE pb]

Placings ==
    {Placing(NearPoint, NearPoint), Placing(EdgePoint, EdgePoint),
     Placing(EdgePoint, InsidePoint), Placing(InsidePoint, NearPoint)}

\* no hand detected yet
NoFrame == Frame(0, <<0, 0, 0, 0>>, 0, 0)

Detectors == 1..NumDetectors

-----------------------------------------------------------------------------
(* State after construction                                                *)

\* the store and the refs after construction
InitTick ==
    /\ mode = "TREE"
    /\ handData = [gesture |-> "NONE", x |-> InitialCoord, y |-> InitialCoord]
    /\ smoothedX = InitialCoord
    /\ smoothedY = InitialCoord
    /\ gestureHistory = <<>>
    /\ lastGestureTime = 0
    /\ lastVideoTime = -1
    /\ now = StartNow
    /\ pushed = <<>>
    /\ commitLog = <<>>
    /\ lastChangeAt = -1
    /\ clicks = 0
    /\ frame = NoFrame
    /\ lastWrist = CentreWrist
    /\ photos = [id \in PhotoIds |-> NoDescription]
    /\ focusedPhotoId = NoPhoto
    /\ captionsPending = [id \in PhotoIds |-> 0]
    /\ screenPos = [id \in PhotoIds |-> CentrePoint]
    /\ photoSteps = 0

\* the detector after construction: the first effect has called init()
InitMount ==
    /\ InitTick
    /\ op = "init"
    /\ landmarkerPromise = 0
    /\ promState = <<>>
    /\ initPc = [d \in Detectors |-> IF d = 1 THEN "delay" ELSE "idle"]
    /\ attempt = [d \in Detectors |-> 1]
    /\ mounted = [d \in Detectors |-> d = 1]
    /\ awaiting = [d \in Detectors |-> 0]
    /\ landmarker = [d \in Detectors |-> "null"]
    /\ calls = [d \in Detectors |-> 0]
    /\ fails = [d \in Detectors |-> 0]
    /\ retryDelay = [d \in Detectors |-> 0]
    /\ camPc = "off"
    /\ streamState = "none"
    /\ srcObject = FALSE
    /\ refAttached = TRUE
    /\ videoReady = FALSE
    /\ torn = FALSE
    /\ rafPending = 0
    /\ detectCalls = 0
    /\ videoTime = -1

\* detector 1 with the loop started: the first attempt installed the
\* landmarker, the camera plays and enableCam has scheduled the first tick
Init ==
    /\ InitTick
    /\ op = "init"
    /\ landmarkerPromise = 1
    /\ promState = <<"resolved">>
    /\ initPc = [d \in Detectors |-> IF d = 1 THEN "done" ELSE "idle"]
    /\ attempt = [d \in Detectors |-> 1]
    /\ mounted = [d \in Detectors |-> d = 1]
    /\ awaiting = [d \in Detectors |-> 0]
    /\ landmarker = [d \in Detectors |-> IF d = 1 THEN "ready" ELSE "null"]
    /\ calls = [d \in Detectors |-> IF d = 1 THEN 1 ELSE 0]
    /\ fails = [d \in Detectors |-> 0]
    /\ retryDelay = [d \in Detectors |-> 0]
    /\ camPc = "started"
    /\ streamState = "live"
    /\ srcObject = TRUE
    /\ refAttached = TRUE
    /\ videoReady = TRUE
    /\ torn = FALSE
    /\ rafPending = 1
    /\ detectCalls = 0
    /\ videoTime = -1

-----------------------------------------------------------------------------
(* predictWebcam, one callback of requestAnimationFrame.                    *)
(* currentTime is video.currentTime, present tells whether                 *)
(* results.landmarks holds a hand, f and wrist are that hand's measures,   *)
(* t is the clock when the tick runs.                                      *)

\* the histories keep the last two entries
LogIf(log, changed, t) ==
    IF ~changed THEN log
    ELSE IF Len(log) < 2 THEN Append(log, t)
    ELSE <<log[2], t>>

\* results.landmarks.length > 0: t is Date.now()
HandPresent(f, wrist, t) ==
    LET h1 == PushHistory(gestureHistory, detectedGesture(f))
        stableGesture == StableGesture(h1)
        tr == Transition(stableGesture, mode, lastGestureTime, t)
        rawX == CoordOne - wrist.x
        rawY == wrist.y
        factor == lerpFactor(rawX - smoothedX, rawY - smoothedY)
        sx == lerp(smoothedX, rawX, factor)
        sy == lerp(smoothedY, rawY, factor)
    IN  /\ now' = t
        /\ gestureHistory' = h1
        /\ pushed' = Append(pushed, detectedGesture(f))
        /\ mode' = setMode(tr.mode)
        /\ lastGestureTime' = tr.lastGestureTime
        /\ smoothedX' = sx
        /\ smoothedY' = sy
        /\ handData' = updateHandData(handData,
                          [gesture |-> stableGesture, x |-> sx, y |-> sy])
        /\ commitLog' = LogIf(commitLog, mode' # mode, t)
        /\ lastChangeAt' = IF mode' # mode THEN t ELSE lastChangeAt
        /\ clicks' = clicks
        /\ frame' = f
        /\ lastWrist' = wrist
        /\ op' = "hand"
        /\ UNCHANGED photoVars

\* the else branch: no hand in the results; the clock is not read
HandAbsent ==
    /\ handData' = updateHandData(handData, [gesture |-> "NONE"])
    /\ op' = "nohand"
    /\ UNCHANGED <<mode, smoothedX, smoothedY, gestureHistory, lastGestureTime,
                   now, pushed, commitLog, lastChangeAt, clicks, frame, lastWrist>>
    /\ UNCHANGED photoVars

\* a tick that returns at its first line or finds the video without a frame
\* size touches none of the refs and the store
Idle(label) ==
    /\ op' = label
    /\ UNCHANGED <<tickVars, detectCalls>>

FrameIsNewAlways(currentTime, last) == TRUE

\* video.currentTime !== lastVideoTime.current
FrameIsNew(currentTime, last) == currentTime # last

\* predictWebcam that returns from the check of the frame size without
\* requesting the next frame
predictWebcamStalls(currentTime, present, f, wrist, t) ==
    /\ rafPending > 0
    /\ UNCHANGED <<initVars, camVars>>
    /\ IF ~(landmarker[1] = "ready" /\ refAttached /\ videoReady)
       THEN /\ rafPending' = rafPending - 1
            /\ videoTime' = videoTime
            /\ Idle(IF landmarker[1] = "ready" /\ refAttached
                       THEN "notready" ELSE "inert")
       ELSE /\ rafPending' = (rafPending - 1) + 1
            /\ videoTime' = currentTime
            /\ IF FrameIsNew(currentTime, lastVideoTime)
               THEN /\ lastVideoTime' = currentTime
                    /\ detectCalls' = detectCalls + 1
                    /\ IF present THEN HandPresent(f, wrist, t)
                                  ELSE HandAbsent
               ELSE Idle("duplicate")

\* one scheduled callback runs; every path but the return at the first line
\* ends with requestAnimationFrame(predictWebcam)
predictWebcam(currentTime, present, f, wrist, t) ==
    /\ rafPending > 0
    /\ UNCHANGED <<initVars, camVars>>
    /\ IF ~(landmarker[1] = "ready" /\ refAttached)
       THEN /\ rafPending' = rafPending - 1
            /\ videoTime' = videoTime
            /\ Idle("inert")
       ELSE /\ rafPending' = (rafPending - 1) + 1
            /\ IF ~videoReady
               THEN /\ videoTime' = videoTime
                    /\ Idle("notready")
               ELSE /\ videoTime' = currentTime
                    /\ IF FrameIsNew(currentTime, lastVideoTime)
                       THEN /\ lastVideoTime' = currentTime
                            /\ detectCalls' = detectCalls + 1
                            /\ IF present THEN HandPresent(f, wrist, t)
                                          ELSE HandAbsent
                       ELSE Idle("duplicate")

\* App: onClick={() => setMode(AppMode.X)} of the three mode buttons, at time t
ClickMode(m, t) ==
    /\ now' = t
    /\ mode' = setMode(m)
    /\ lastChangeAt' = IF mode' # mode THEN t ELSE lastChangeAt
    /\ clicks' = clicks + 1
    /\ op' = "click"
    /\ UNCHANGED <<handData, smoothedX, smoothedY, gestureHistory, lastGestureTime,
                   lastVideoTime, pushed, commitLog, frame, lastWrist>>
    /\ UNCHANGED photoVars
    /\ UNCHANGED <<initVars, camVars, rafPending, detectCalls, videoTime>>

-----------------------------------------------------------------------------
(* initializeHandLandmarker and the first effect. The promises are         *)
(* numbered in the order of their creation; promState[p] is the state of   *)
(* the p-th.  Each detector d is one run of the effect, with its own        *)
(* mounted flag and init closure.                                           *)

loopVars == <<tickVars, rafPending, detectCalls, videoTime>>

\* initializeHandLandmarker without the test of landmarkerPromise
initializeHandLandmarkerAlways(lp, n) ==
    [promise |-> n + 1, created |-> TRUE]

\* if (landmarkerPromise) return landmarkerPromise; else create it.
\* lp is landmarkerPromise, n the number of promises created so far
initializeHandLandmarker(lp, n) ==
    IF lp # 0 THEN [promise |-> lp, created |-> FALSE]
    ELSE [promise |-> n + 1, created |-> TRUE]

\* ShouldRetry with <= in place of <
ShouldRetryLE(isMounted, att) == isMounted /\ att <= MaxAttempts

\* mounted && attempt < 3
ShouldRetry(isMounted, att) == isMounted /\ att < MaxAttempts

\* attempt * 1000
RetryDelayMs(att) == att * RetryBaseMs

\* the effect runs for a further detector, the detectors being numbered in
\* the order of their mounting: init()
Mount(d) ==
    /\ initPc[d] = "idle"
    /\ initPc[d - 1] # "idle"
    /\ initPc' = [initPc EXCEPT ![d] = "delay"]
    /\ mounted' = [mounted EXCEPT ![d] = TRUE]
    /\ op' = "life"
    /\ UNCHANGED <<landmarkerPromise, promState, attempt, awaiting, landmarker,
                   calls, fails, retryDelay>>
    /\ UNCHANGED <<loopVars, camVars>>

\* the 500 ms timer of init fires: return if unmounted, else call
\* initializeHandLandmarker and await its promise
DelayElapsed(d) ==
    /\ initPc[d] = "delay"
    /\ op' = "life"
    /\ UNCHANGED <<attempt, mounted, landmarker, fails, retryDelay>>
    /\ UNCHANGED <<loopVars, camVars>>
    /\ IF ~mounted[d]
       THEN /\ initPc' = [initPc EXCEPT ![d] = "done"]
            /\ UNCHANGED <<landmarkerPromise, promState, awaiting, calls>>
       ELSE LET r == initializeHandLandmarker(landmarkerPromise, Len(promState))
            IN  /\ initPc' = [initPc EXCEPT ![d] = "await"]
                /\ calls' = [calls EXCEPT ![d] = @ + 1]
                /\ awaiting' = [awaiting EXCEPT ![d] = r.promise]
                /\ landmarkerPromise' = r.promise
                /\ promState' = IF r.created THEN Append(promState, "pending")
                                              ELSE promState

\* HandLandmarker.createFromOptions returns
CreationResolves(p) ==
    /\ promState[p] = "pending"
    /\ promState' = [promState EXCEPT ![p] = "resolved"]
    /\ op' = "life"
    /\ UNCHANGED <<landmarkerPromise, initPc, attempt, mounted, awaiting,
                   landmarker, calls, fails, retryDelay>>
    /\ UNCHANGED <<loopVars, camVars>>

\* forVisionTasks or createFromOptions throws: the catch resets the
\* singleton and rethrows
CreationFails(p) ==
    /\ promState[p] = "pending"
    /\ promState' = [promState EXCEPT ![p] = "rejected"]
    /\ landmarkerPromise' = 0
    /\ op' = "life"
    /\ UNCHANGED <<initPc, attempt, mounted, awaiting, landmarker, calls, fails,
                   retryDelay>>
    /\ UNCHANGED <<loopVars, camVars>>

\* AwaitResumes that calls setLandmarker without the test of mounted
AwaitResumesInstalls(d) ==
    /\ initPc[d] = "await"
    /\ promState[awaiting[d]] # "pending"
    /\ op' = "life"
    /\ awaiting' = [awaiting EXCEPT ![d] = 0]
    /\ UNCHANGED <<landmarkerPromise, promState, attempt, mounted, calls>>
    /\ UNCHANGED <<loopVars, camVars>>
    /\ IF promState[awaiting[d]] = "resolved"
       THEN /\ initPc' = [initPc EXCEPT ![d] = "done"]
            /\ landmarker' = [landmarker EXCEPT ![d] = "ready"]
            /\ UNCHANGED <<fails, retryDelay>>
       ELSE /\ fails' = [fails EXCEPT ![d] = @ + 1]
            /\ landmarker' = landmarker
            /\ IF ShouldRetry(mounted[d], attempt[d])
               THEN /\ initPc' = [initPc EXCEPT ![d] = "retry"]
                    /\ retryDelay' = [retryDelay EXCEPT
                                         ![d] = RetryDelayMs(attempt[d])]
               ELSE /\ initPc' = [initPc EXCEPT ![d] = "done"]
                    /\ retryDelay' = retryDelay

\* init resumes after its await: setLandmarker if mounted, or the catch
AwaitResumes(d) ==
    /\ initPc[d] = "await"
    /\ promState[awaiting[d]] # "pending"
    /\ op' = "life"
    /\ awaiting' = [awaiting EXCEPT ![d] = 0]
    /\ UNCHANGED <<landmarkerPromise, promState, attempt, mounted, calls>>
    /\ UNCHANGED <<loopVars, camVars>>
    /\ IF promState[awaiting[d]] = "resolved"
       THEN /\ initPc' = [initPc EXCEPT ![d] = "done"]
            /\ landmarker' = [landmarker EXCEPT
                                 ![d] = IF mounted[d] THEN "ready" ELSE @]
            /\ UNCHANGED <<fails, retryDelay>>
       ELSE /\ fails' = [fails EXCEPT ![d] = @ + 1]
            /\ landmarker' = landmarker
            /\ IF ShouldRetry(mounted[d], attempt[d])
               THEN /\ initPc' = [initPc EXCEPT ![d] = "retry"]
                    /\ retryDelay' = [retryDelay EXCEPT
                                         ![d] = RetryDelayMs(attempt[d])]
               ELSE /\ initPc' = [initPc EXCEPT ![d] = "done"]
                    /\ retryDelay' = retryDelay

\* the retry timer fires: init(attempt + 1)
RetryFires(d) ==
    /\ initPc[d] = "retry"
    /\ initPc' = [initPc EXCEPT ![d] = "delay"]
    /\ attempt' = [attempt EXCEPT ![d] = @ + 1]
    /\ op' = "life"
    /\ UNCHANGED <<landmarkerPromise, promState, mounted, awaiting, landmarker,
                   calls, fails, retryDelay>>
    /\ UNCHANGED <<loopVars, camVars>>

\* the cleanup of the first effect of a detector other than the first
UnmountOther(d) ==
    /\ d # 1
    /\ mounted[d]
    /\ mounted' = [mounted EXCEPT ![d] = FALSE]
    /\ op' = "life"
    /\ UNCHANGED <<landmarkerPromise, promState, initPc, attempt, awaiting,
                   landmarker, calls, fails, retryDelay>>
    /\ UNCHANGED <<loopVars, camVars>>

-----------------------------------------------------------------------------
(* The camera effect of detector 1 and the unmount.  The effect runs again  *)
(* when setLandmarker has installed the landmarker; the cleanup that        *)
(* precedes that run finds requestRef.current 0 and srcObject null and does *)
(* nothing.                                                                 *)

\* EnableCam without the test of landmarker
EnableCamUnguarded ==
    /\ camPc = "off"
    /\ ~torn
    /\ refAttached
    /\ camPc' = "getUserMedia"
    /\ op' = "life"
    /\ UNCHANGED <<streamState, srcObject, refAttached, videoReady, torn>>
    /\ UNCHANGED <<loopVars, initVars>>

\* enableCam: videoRef.current && landmarker, then getUserMedia is awaited
EnableCam ==
    /\ landmarker[1] = "ready"
    /\ camPc = "off"
    /\ ~torn
    /\ refAttached
    /\ camPc' = "getUserMedia"
    /\ op' = "life"
    /\ UNCHANGED <<streamState, srcObject, refAttached, videoReady, torn>>
    /\ UNCHANGED <<loopVars, initVars>>

\* getUserMedia resolves; videoRef.current.srcObject = stream throws a
\* TypeError into the catch when videoRef.current is null; else play() is
\* awaited
GetUserMediaOk ==
    /\ camPc = "getUserMedia"
    /\ streamState' = "live"
    /\ IF refAttached
       THEN srcObject' = TRUE /\ camPc' = "play"
       ELSE srcObject' = srcObject /\ camPc' = "failed"
    /\ op' = "life"
    /\ UNCHANGED <<refAttached, videoReady, torn>>
    /\ UNCHANGED <<loopVars, initVars>>

\* getUserMedia rejects: the catch logs the error
GetUserMediaFail ==
    /\ camPc = "getUserMedia"
    /\ camPc' = "failed"
    /\ op' = "life"
    /\ UNCHANGED <<streamState, srcObject, refAttached, videoReady, torn>>
    /\ UNCHANGED <<loopVars, initVars>>

\* play() resolves: requestRef.current = requestAnimationFrame(predictWebcam)
PlayOk ==
    /\ camPc = "play"
    /\ camPc' = "started"
    /\ rafPending' = rafPending + 1
    /\ op' = "life"
    /\ UNCHANGED <<streamState, srcObject, refAttached, videoReady, torn>>
    /\ UNCHANGED <<tickVars, detectCalls, videoTime, initVars>>

\* PlayFail that starts the loop all the same
PlayFailStartsLoop ==
    /\ camPc = "play"
    /\ camPc' = "failed"
    /\ rafPending' = rafPending + 1
    /\ op' = "life"
    /\ UNCHANGED <<streamState, srcObject, refAttached, videoReady, torn>>
    /\ UNCHANGED <<tickVars, detectCalls, videoTime, initVars>>

\* play() rejects: the catch logs the error
PlayFail ==
    /\ camPc = "play"
    /\ camPc' = "failed"
    /\ op' = "life"
    /\ UNCHANGED <<streamState, srcObject, refAttached, videoReady, torn>>
    /\ UNCHANGED <<loopVars, initVars>>

\* the video element learns the size of its frames
VideoLoaded ==
    /\ srcObject
    /\ streamState = "live"
    /\ ~videoReady
    /\ videoReady' = TRUE
    /\ op' = "life"
    /\ UNCHANGED <<camPc, streamState, srcObject, refAttached, torn>>
    /\ UNCHANGED <<loopVars, initVars>>

\* detector 1 unmounts: mounted = false, and the cleanup of the camera
\* effect: cancelAnimationFrame(requestRef.current), which holds the last
\* frame requested, and the tracks stopped if videoRef.current and its
\* srcObject are set.  refSeen tells whether the cleanup still finds
\* videoRef.current: React clears the ref of an unmounted element, before
\* or after it runs the cleanup.
Unmount(refSeen) ==
    /\ mounted[1]
    /\ mounted' = [mounted EXCEPT ![1] = FALSE]
    /\ torn' = TRUE
    /\ refAttached' = FALSE
    /\ rafPending' = IF rafPending > 0 THEN rafPending - 1 ELSE 0
    /\ streamState' = IF refSeen /\ srcObject /\ streamState = "live"
                         THEN "stopped" ELSE streamState
    /\ op' = "life"
    /\ UNCHANGED <<camPc, srcObject, videoReady>>
    /\ UNCHANGED <<tickVars, detectCalls, videoTime>>
    /\ UNCHANGED <<landmarkerPromise, promState, initPc, attempt, awaiting,
                   landmarker, calls, fails, retryDelay>>

-----------------------------------------------------------------------------
(* PhotoCloud: the interaction loop of useFrame, the click on a photo, and  *)
(* the captions of generateHolidayDescription.  A component renders anew   *)
(* when the store changes, before the next frame or event runs: the photos *)
(* of its closure are those of the store.                                  *)

\* the store and the refs of the detector, which the photo cloud leaves alone
detectorVars == <<mode, handData, smoothedX, smoothedY, gestureHistory,
                  lastGestureTime, lastVideoTime, now, pushed, commitLog,
                  lastChangeAt, clicks, frame, lastWrist>>

\* setFocusedPhotoId: (id) => set({ focusedPhotoId: id })
setFocusedPhotoId(id) == id

\* photos.map(p => p.id === id ? { ...p, description: desc } : p)
updatePhotoDescription(ps, id, desc) ==
    [p \in DOMAIN ps |-> IF p = id THEN desc ELSE ps[p]]

\* dx * dx + dy * dy, the square of dist, of a photo at pt and the cursor hd
Dist2(pt, hd) == (pt.x - hd.x) * (pt.x - hd.x) + (pt.y - hd.y) * (pt.y - hd.y)

\* itemsRef.current.forEach: if (dist < minDistance) the item becomes the
\* closest; best.id is NoPhoto while minDistance is Infinity
RECURSIVE Closest(_, _, _, _)
Closest(order, pos, hd, best) ==
    IF order = <<>> THEN best
    ELSE LET id == Head(order)
             d2 == Dist2(pos[id], hd)
         IN  Closest(Tail(order), pos, hd,
                     IF best.id = NoPhoto \/ d2 < best.d2
                        THEN [id |-> id, d2 |-> d2] ELSE best)

\* withinReach with <= in place of <
withinReachLE(d2) == d2 <= FocusDist * FocusDist

\* minDistance < 0.2
withinReach(d2) == d2 < FocusDist * FocusDist

\* photo && !photo.description, and !data.description of the item
needsCaption(ps, id) == id \in DOMAIN ps /\ ps[id] = NoDescription

\* generateHolidayDescription(url) is called for photo id
requestCaption(pending, id) == [pending EXCEPT ![id] = @ + 1]

\* one frame of the interaction loop, the photos standing at pos
PhotoFrame(pos) ==
    /\ photoSteps < MaxPhotoSteps
    /\ photoSteps' = photoSteps + 1
    /\ screenPos' = pos
    /\ op' = "photoframe"
    /\ photos' = photos
    /\ UNCHANGED <<detectorVars, initVars, camVars, rafPending, detectCalls,
                   videoTime>>
    /\ IF focusedPhotoId # NoPhoto
       THEN /\ focusedPhotoId' = IF handData.gesture = "OPEN_HAND"
                                    THEN setFocusedPhotoId(NoPhoto)
                                    ELSE focusedPhotoId
            /\ captionsPending' = captionsPending
       ELSE LET c == Closest(PhotoOrder, pos, handData,
                             [id |-> NoPhoto, d2 |-> 0])
            IN  IF handData.gesture = "PINCH" /\ c.id # NoPhoto
                                              /\ withinReach(c.d2)
                   THEN /\ focusedPhotoId' = setFocusedPhotoId(c.id)
                        /\ captionsPending' =
                              IF needsCaption(photos, c.id)
                                 THEN requestCaption(captionsPending, c.id)
                                 ELSE captionsPending
                   ELSE UNCHANGED <<focusedPhotoId, captionsPending>>

\* onClick of the image of photo id
PhotoClick(id) ==
    /\ photoSteps < MaxPhotoSteps
    /\ photoSteps' = photoSteps + 1
    /\ op' = "photoclick"
    /\ UNCHANGED <<photos, screenPos>>
    /\ UNCHANGED <<detectorVars, initVars, camVars, rafPending, detectCalls,
                   videoTime>>
    /\ LET isFocused == focusedPhotoId = id
       IN  IF ~(mode # "SCATTER" /\ ~isFocused)
              THEN /\ focusedPhotoId' =
                        setFocusedPhotoId(IF isFocused THEN NoPhoto ELSE id)
                   /\ captionsPending' =
                        IF ~isFocused /\ needsCaption(photos, id)
                           THEN requestCaption(captionsPending, id)
                           ELSE captionsPending
              ELSE UNCHANGED <<focusedPhotoId, captionsPending>>

\* a promise of generateHolidayDescription for photo id resolves to desc:
\* .then(desc => updatePhotoDescription(id, desc))
CaptionArrives(id, desc) ==
    /\ captionsPending[id] > 0
    /\ captionsPending' = [captionsPending EXCEPT ![id] = @ - 1]
    /\ photos' = updatePhotoDescription(photos, id, desc)
    /\ op' = "caption"
    /\ UNCHANGED <<focusedPhotoId, screenPos, photoSteps>>
    /\ UNCHANGED <<detectorVars, initVars, camVars, rafPending, detectCalls,
                   videoTime>>

-----------------------------------------------------------------------------
(* What the UI can observe of detector 1: the store and the rendering of   *)
(* the component, whose caption depends on no state                         *)

\* the caption under the canvas, as rendered with the landmarker state lm
statusLabel(lm) == "GESTURE LINKED"

UiObservable == {statusLabel(landmarker[1]), mode, handData.gesture}

-----------------------------------------------------------------------------
(* Specifications                                                          *)

\* video.currentTime of a tick that meets a new frame, while frames remain
NewFrame(maxFrames) == {ct \in {lastVideoTime + 1} : ct < maxFrames}

\* a tick on the frame already processed
TickDuplicate ==
    /\ lastVideoTime >= 0
    /\ predictWebcam(lastVideoTime, FALSE, LooseFrame, CentreWrist, now)

\* Spec: the mode controller under every gesture, the clock and the buttons
TickHand ==
    \E ct \in NewFrame(MaxFrames), f \in ModeFrames, dt \in Deltas :
        predictWebcam(ct, TRUE, f, CentreWrist, now + dt)

TickNoHand ==
    \E ct \in NewFrame(MaxFrames) :
        predictWebcam(ct, FALSE, LooseFrame, CentreWrist, now)

Click ==
    \E m \in ButtonModes, dt \in ClickDeltas :
        /\ clicks < MaxClicks
        /\ ClickMode(m, now + dt)

Next == TickHand \/ TickNoHand \/ TickDuplicate \/ Click

Spec == Init /\ [][Next]_vars

\* SpecStab: the stabilizer over windows longer than its capacity
StabHand ==
    \E ct \in NewFrame(MaxStabFrames), f \in StabFrames :
        predictWebcam(ct, TRUE, f, CentreWrist, now + FrameMs)

StabNoHand ==
    \E ct \in NewFrame(MaxStabFrames) :
        predictWebcam(ct, FALSE, LooseFrame, CentreWrist, now)

NextStab == StabHand \/ StabNoHand \/ TickDuplicate

SpecStab == Init /\ [][NextStab]_vars

\* SpecCursor: the cursor and the published hand state under a moving wrist
CursorHand ==
    \E ct \in NewFrame(MaxCursorFrames), f \in CursorFrames, wrist \in Wrists :
        predictWebcam(ct, TRUE, f, wrist, now + FrameMs)

CursorNoHand ==
    \E ct \in NewFrame(MaxCursorFrames) :
        predictWebcam(ct, FALSE, LooseFrame, CentreWrist, now)

NextCursor == CursorHand \/ CursorNoHand \/ TickDuplicate

SpecCursor == Init /\ [][NextCursor]_vars

\* SpecClassify: MaxFrames frames that vary the history, the mode and the
\* clock, then one frame out of ClassifyFrames
ClassifyWarm ==
    \E ct \in NewFrame(MaxFrames), f \in WarmFrames :
        predictWebcam(ct, TRUE, f, CentreWrist, now + WarmMs)

ClassifyProbe ==
    /\ lastVideoTime + 1 = MaxFrames
    /\ \E f \in ClassifyFrames, k \in ProbeScales, dt \in ProbeDeltas :
           predictWebcam(MaxFrames, TRUE, ScaleFrame(f, k), CentreWrist, now + dt)

NextClassify == ClassifyWarm \/ ClassifyProbe

SpecClassify == Init /\ [][NextClassify]_vars

\* SpecFist: the Text button may be clicked before the first frame, then
\* come frames that show a fist
FistClick ==
    \E dt \in ClickDeltas :
        /\ clicks < MaxClicks
        /\ pushed = <<>>
        /\ ClickMode("TEXT", now + dt)

FistHand ==
    \E ct \in NewFrame(MaxFistFrames), f \in FistFrames, dt \in Deltas :
        predictWebcam(ct, TRUE, f, CentreWrist, now + dt)

NextFist == FistClick \/ FistHand

SpecFist == Init /\ [][NextFist]_vars

\* SpecInit: the init closures of the detectors around the one
\* landmarkerPromise
InitMounts == \E d \in Detectors : Mount(d)
InitDelays == \E d \in Detectors : DelayElapsed(d)
InitResolves == \E p \in DOMAIN promState : CreationResolves(p)
InitFails == \E p \in DOMAIN promState : CreationFails(p)
InitResumes == \E d \in Detectors : AwaitResumes(d)
InitRetries == \E d \in Detectors : RetryFires(d)
InitUnmounts == \E d \in Detectors : UnmountOther(d)
InitUnmountFirst == \E refSeen \in BOOLEAN : Unmount(refSeen)

NextInit ==
    \/ InitMounts
    \/ InitDelays
    \/ InitResolves
    \/ InitFails
    \/ InitResumes
    \/ InitRetries
    \/ InitUnmounts
    \/ InitUnmountFirst

SpecInit == InitMount /\ [][NextInit]_vars

\* SpecLife: detector 1 from its mount to its unmount
LifeDelay == DelayElapsed(1)
LifeResumes == AwaitResumes(1)
LifeRetry == RetryFires(1)

\* a tick while the video shows a frame not yet processed
LifeTick ==
    \E ct \in NewFrame(MaxFrames), present \in BOOLEAN :
        predictWebcam(ct, present, OpenFrame, CentreWrist, now + FrameMs)

NextLife ==
    \/ LifeDelay
    \/ InitResolves
    \/ InitFails
    \/ LifeResumes
    \/ LifeRetry
    \/ InitUnmountFirst
    \/ EnableCam
    \/ GetUserMediaOk
    \/ GetUserMediaFail
    \/ PlayOk
    \/ PlayFail
    \/ VideoLoaded
    \/ LifeTick
    \/ TickDuplicate

SpecLife == InitMount /\ [][NextLife]_vars

\* SpecSmooth: the wrist moves for MaxTurnFrames frames, then rests
SmoothTurn ==
    \E ct \in NewFrame(MaxTurnFrames), wrist \in SmoothWrists :
        predictWebcam(ct, TRUE, LooseFrame, wrist, now + FrameMs)

SmoothHold ==
    \E ct \in NewFrame(MaxHoldFrames) :
        /\ ct >= MaxTurnFrames
        /\ predictWebcam(ct, TRUE, LooseFrame, lastWrist, now + FrameMs)

NextSmooth == SmoothTurn \/ SmoothHold

SpecSmooth == Init /\ [][NextSmooth]_vars

\* SpecPhoto: the hand pinches, opens and closes over the centre of the
\* screen while the photo cloud runs its frames, photos are clicked and
\* captions arrive
PhotoTick ==
    \E ct \in NewFrame(MaxPhotoTicks), f \in {PinchFrame, OpenFrame, FistFrame} :
        predictWebcam(ct, TRUE, f, CentreWrist, now + FrameMs)

PhotoLooks == \E pos \in Placings : PhotoFrame(pos)

PhotoClicks == \E id \in PhotoIds : PhotoClick(id)

CaptionArrivals == \E id \in PhotoIds, desc \in CaptionTexts : CaptionArrives(id, desc)

NextPhoto == PhotoTick \/ PhotoLooks \/ PhotoClicks \/ CaptionArrivals

SpecPhoto == Init /\ [][NextPhoto]_vars

-----------------------------------------------------------------------------
(* Properties                                                              *)

\* a step of predictWebcam that met a new video frame
ProcessedTick == lastVideoTime' # lastVideoTime

\* the transition table: stable gesture to target mode
Target ==
    [g \in {"HEART", "VICTORY", "CLOSED_FIST", "OPEN_HAND"} |->
        CASE g = "HEART" -> "LOVE"
          [] g = "VICTORY" -> "TEXT"
          [] g = "CLOSED_FIST" -> "TREE"
          [] g = "OPEN_HAND" -> "SCATTER"]

Occurrences(h, g) == Cardinality({i \in DOMAIN h : h[i] = g})

Elements(h) == {h[i] : i \in DOMAIN h}

FirstIndex(h, g) == CHOOSE i \in DOMAIN h : h[i] = g /\ \A j \in 1..(i - 1) : h[j] # g

\* the gestures of h that no other gesture outnumbers
MostFrequent(h) ==
    {g \in Elements(h) : \A k \in Elements(h) : Occurrences(h, k) <= Occurrences(h, g)}

Min2(a, b) == IF a < b THEN a ELSE b

\* C1 as stated: any two changes of the mode are more than 600 ms apart.
C1_AnyTwoChangesApart ==
    [][(mode' # mode /\ lastChangeAt # -1) => now' - lastChangeAt > CooldownMs]_vars

\* C1 as amended: any two changes of the mode made by gesture ticks are more
\* than 600 ms apart (a click on a mode button changes the mode at any time).
C1_GestureChangesApart ==
    Len(commitLog) = 2 => commitLog[2] - commitLog[1] > CooldownMs

\* two gesture changes, the second 700 ms after the first
C1_Witness ==
    /\ op = "hand"
    /\ Len(commitLog) = 2
    /\ commitLog[2] = now
    /\ commitLog[2] - commitLog[1] = 700

\* C2: in a processed hand-present tick with stable gesture s and mode m, the
\* mode becomes Target[s] exactly when more than 600 ms passed since the last
\* gesture transition, s has a target and the target is not m; otherwise the
\* mode stays m.
C2_TransitionTable ==
    [][(ProcessedTick /\ op' = "hand") =>
        LET s == handData'.gesture
            eligible == /\ now' - lastGestureTime > CooldownMs
                        /\ s \in DOMAIN Target
                        /\ Target[s] # mode
        IN  mode' = IF eligible THEN Target[s] ELSE mode]_vars

\* a second eligible gesture 100 ms after a committed one is not committed
C2_Witness ==
    /\ op = "hand"
    /\ Len(commitLog) = 1
    /\ now - commitLog[1] = 100
    /\ handData.gesture \in DOMAIN Target
    /\ Target[handData.gesture] # mode

\* C3 as stated: every change of the mode is a gesture transition that passed
\* the cooldown test and set lastGestureTime.
C3_OnlyController ==
    [][mode' # mode =>
        /\ op' = "hand"
        /\ now' - lastGestureTime > CooldownMs
        /\ lastGestureTime' = now']_vars

\* C3 as amended: every change of the mode is either such a gesture
\* transition, or a click on one of the three mode buttons, which sets TREE,
\* TEXT or SCATTER without a cooldown test and leaves lastGestureTime alone.
C3_ControllerOrButton ==
    [][mode' # mode =>
        \/ /\ op' = "hand"
           /\ now' - lastGestureTime > CooldownMs
           /\ lastGestureTime' = now'
        \/ /\ op' = "click"
           /\ mode' \in ButtonModes
           /\ lastGestureTime' = lastGestureTime]_vars

\* a click changed the mode within the cooldown of a gesture transition
C3_Witness ==
    /\ op = "click"
    /\ lastChangeAt = now
    /\ Len(commitLog) = 1
    /\ now - lastGestureTime = 100

\* C4 as stated: among the most frequent gestures of the window the stable
\* gesture is the one that occurs first.
C4_FirstSeenWins ==
    op = "hand" =>
        /\ handData.gesture \in MostFrequent(gestureHistory)
        /\ \A g \in MostFrequent(gestureHistory) :
              FirstIndex(gestureHistory, handData.gesture) <= FirstIndex(gestureHistory, g)

\* C4 as amended: among the most frequent gestures of the window the stable
\* gesture is the one whose first occurrence comes last; the window
\* A,B,A,B,A,B,A,B yields B.
C4_LastSeenWins ==
    op = "hand" =>
        /\ handData.gesture \in MostFrequent(gestureHistory)
        /\ \A g \in MostFrequent(gestureHistory) :
              FirstIndex(gestureHistory, handData.gesture) >= FirstIndex(gestureHistory, g)

\* the alternating window, open and fist, four each
C4_Witness ==
    /\ op = "hand"
    /\ gestureHistory = <<"OPEN_HAND", "CLOSED_FIST", "OPEN_HAND", "CLOSED_FIST",
                          "OPEN_HAND", "CLOSED_FIST", "OPEN_HAND", "CLOSED_FIST">>
    /\ handData.gesture = "CLOSED_FIST"

\* C5: after a push the stable gesture occurs in the window and no gesture
\* occurs more often in it.
C5_StableIsMostFrequent ==
    op = "hand" =>
        /\ Occurrences(gestureHistory, handData.gesture) >= 1
        /\ \A g \in GestureType :
              Occurrences(gestureHistory, g) <= Occurrences(gestureHistory, handData.gesture)

\* the window A,A,A,A,A,B,B,B yields A
C5_Witness ==
    /\ op = "hand"
    /\ gestureHistory = <<"OPEN_HAND", "OPEN_HAND", "OPEN_HAND", "OPEN_HAND",
                          "OPEN_HAND", "CLOSED_FIST", "CLOSED_FIST", "CLOSED_FIST">>
    /\ handData.gesture = "OPEN_HAND"

\* C6: after a processed tick without a hand the published gesture is NONE.
C6_AbsentPublishesNone == op = "nohand" => handData.gesture = "NONE"

\* the hand vanished with the window full of one gesture
C6_Witness ==
    /\ op = "nohand"
    /\ Len(gestureHistory) = HistoryCap
    /\ \A i \in DOMAIN gestureHistory : gestureHistory[i] = "CLOSED_FIST"
    /\ handData.gesture = "NONE"

\* C7 as stated: every processed tick appends one sample to the history, and
\* the sample of a tick without a hand is NONE.
C7_EveryTickPushes ==
    [][ProcessedTick =>
        /\ Len(pushed') = Len(pushed) + 1
        /\ op' = "nohand" => pushed'[Len(pushed')] = "NONE"]_vars

\* C8: a processed tick without a hand leaves the smoothed cursor, the
\* published cursor, the mode and lastGestureTime as they were; and as long as
\* no hand was seen the published state is (NONE, 0.5, 0.5) and no gesture
\* transition was made.
C8_AbsentHoldsCursor ==
    /\ [][(ProcessedTick /\ op' = "nohand") =>
            /\ smoothedX' = smoothedX
            /\ smoothedY' = smoothedY
            /\ handData'.x = handData.x
            /\ handData'.y = handData.y
            /\ mode' = mode
            /\ lastGestureTime' = lastGestureTime]_vars
    /\ [](pushed = <<>> =>
            /\ handData = [gesture |-> "NONE", x |-> InitialCoord, y |-> InitialCoord]
            /\ commitLog = <<>>
            /\ lastGestureTime = 0)

\* the hand vanished after it moved the cursor and changed the mode
C8_Witness ==
    /\ op = "nohand"
    /\ smoothedX # InitialCoord
    /\ handData.x = smoothedX
    /\ handData.y = smoothedY
    /\ mode = "SCATTER"
    /\ lastGestureTime > 0

\* C9: a tick either leaves the mode and lastGestureTime as they were, or it
\* is a hand-present tick that changes the mode and sets lastGestureTime to
\* the time it read.
C9_NoOpKeepsCooldown ==
    [][op' \in {"hand", "nohand", "duplicate"} =>
        \/ /\ mode' = mode
           /\ lastGestureTime' = lastGestureTime
        \/ /\ mode' # mode
           /\ op' = "hand"
           /\ lastGestureTime' = now']_vars

\* after the cooldown a gesture that maps to the current mode left the time
\* stamp of the last transition in place
C9_Witness ==
    /\ op = "hand"
    /\ Len(commitLog) = 1
    /\ now - commitLog[1] > CooldownMs
    /\ handData.gesture \in DOMAIN Target
    /\ Target[handData.gesture] = mode
    /\ lastGestureTime = commitLog[1]

\* C10: the history holds at most 8 samples: the last min(n, 8) of the n
\* samples pushed, in the order pushed.
C10_HistoryIsLastEight ==
    LET n == Len(pushed)
        k == Min2(n, HistoryCap)
    IN  /\ Len(gestureHistory) <= HistoryCap
        /\ gestureHistory = SubSeq(pushed, n - k + 1, n)

\* a ninth sample evicted the first one, which differed from the second
C10_Witness ==
    /\ Len(pushed) = HistoryCap + 1
    /\ pushed[1] # pushed[2]
    /\ Len(gestureHistory) = HistoryCap
    /\ gestureHistory[1] = pushed[2]

\* the steps of predictWebcam that reach the comparison of the frame times
TickLabels == {"hand", "nohand", "duplicate"}

\* C11: a tick whose video.currentTime equals the time the previous processed
\* tick recorded calls detectForVideo not at all, leaves the gesture history,
\* the smoothed cursor, the published hand state, the mode and the time of
\* the last transition as they are, and schedules the next tick
C11_DuplicateTickIsInert ==
    [][(op' \in TickLabels /\ videoTime' = lastVideoTime)
         => /\ detectCalls' = detectCalls
            /\ UNCHANGED <<gestureHistory, smoothedX, smoothedY, handData,
                           mode, lastGestureTime, lastVideoTime>>
            /\ rafPending' = rafPending
            /\ rafPending' > 0]_vars

C11_Witness ==
    /\ op = "duplicate"
    /\ videoTime = lastVideoTime
    /\ detectCalls >= 1
    /\ gestureHistory # <<>>
    /\ rafPending > 0

\* the classification as the specification words it, on the measures h
\* (handSize), d (the four fingertip distances), pinchDist and thumbDist
Below(d, ratio, h) == 10 * d < ratio * h
Above(d, ratio, h) == 10 * d > ratio * h

HeartPredicate(f) ==
    /\ Above(f.thumbDist, 8, f.handSize)
    /\ Above(f.d[1], 14, f.handSize)
    /\ Below(f.d[2], 12, f.handSize)
    /\ Below(f.d[3], 12, f.handSize)
    /\ Above(f.d[4], 14, f.handSize)

VictoryPredicate(f) ==
    /\ Above(f.d[1], 14, f.handSize)
    /\ Above(f.d[2], 14, f.handSize)
    /\ Below(f.d[3], 12, f.handSize)
    /\ Below(f.d[4], 12, f.handSize)

FistPredicate(f) == \A i \in 1..4 : Below(f.d[i], 13, f.handSize)

PinchPredicate(f) == Below(f.pinchDist, 5, f.handSize)

OpenPredicate(f) == \A i \in 1..4 : Above(f.d[i], 16, f.handSize)

FirstMatch(f) ==
    CASE HeartPredicate(f) -> "HEART"
      [] ~HeartPredicate(f) /\ VictoryPredicate(f) -> "VICTORY"
      [] ~HeartPredicate(f) /\ ~VictoryPredicate(f) /\ FistPredicate(f)
            -> "CLOSED_FIST"
      [] ~HeartPredicate(f) /\ ~VictoryPredicate(f) /\ ~FistPredicate(f)
            /\ PinchPredicate(f) -> "PINCH"
      [] ~HeartPredicate(f) /\ ~VictoryPredicate(f) /\ ~FistPredicate(f)
            /\ ~PinchPredicate(f) /\ OpenPredicate(f) -> "OPEN_HAND"
      [] OTHER -> "NONE"

\* C12: the raw gesture of a hand frame is the first match, in the order
\* HEART, VICTORY, CLOSED_FIST, PINCH, OPEN_HAND, else NONE, of the predicates
\* on that frame's handSize, fingertip distances, pinchDist and thumbDist,
\* whatever the history, the cursor, the mode and the clock were
C12_RawGestureIsFirstMatch ==
    frame # NoFrame => pushed[Len(pushed)] = FirstMatch(frame)

\* a fist that also pinches, classified after other frames changed the mode
C12_Witness ==
    /\ frame \in ClassifyFrames
    /\ FistPredicate(frame) /\ PinchPredicate(frame)
    /\ Len(pushed) > 1
    /\ pushed[Len(pushed)] = "CLOSED_FIST"
    /\ pushed[Len(pushed) - 1] = "OPEN_HAND"
    /\ mode = "SCATTER"

\* in SpecFist: the run began in mode TEXT with an empty history and n
\* frames were processed since, each with the raw gesture CLOSED_FIST
FistRunFromText(n) ==
    /\ clicks >= 1
    /\ Len(pushed) = n
    /\ detectCalls = n
    /\ \A i \in 1..n : pushed[i] = "CLOSED_FIST"

\* C19: from mode TEXT and an empty history, 10 consecutive processed frames
\* with the raw gesture CLOSED_FIST commit exactly one change of mode, to
\* TREE, and leave the mode TREE after the 10th frame
C19_TenFistsCommitTreeOnce ==
    FistRunFromText(10) =>
        /\ mode = "TREE"
        /\ Len(commitLog) = 1
        /\ lastChangeAt = commitLog[1]
        /\ lastGestureTime = commitLog[1]

C19_Witness ==
    /\ FistRunFromText(10)
    /\ mode = "TREE"
    /\ Len(commitLog) = 1
    /\ Len(gestureHistory) = HistoryCap

\* the creations of a landmarker that are in flight
PendingCreations == {p \in DOMAIN promState : promState[p] = "pending"}

\* the last promise created is pending or fulfilled
CreationStands ==
    /\ promState # <<>>
    /\ promState[Len(promState)] # "rejected"

\* detector d calls initializeHandLandmarker in this step
CallsInitialize(d) == calls'[d] = calls[d] + 1

\* C14: at most one creation of the landmarker is in flight; a caller of
\* initializeHandLandmarker that arrives while a creation is pending or after
\* it succeeded gets that promise and sees its outcome; a new creation is
\* started only after the previous one has failed
C14_OneCreationInFlight ==
    /\ [](/\ Cardinality(PendingCreations) <= 1
          /\ \A p \in DOMAIN promState :
                p < Len(promState) => promState[p] = "rejected"
          /\ landmarkerPromise # 0 =>
                landmarkerPromise = Len(promState) /\ CreationStands)
    /\ [][\A d \in Detectors :
            /\ CallsInitialize(d) /\ CreationStands =>
                  awaiting'[d] = Len(promState) /\ promState' = promState
            /\ CallsInitialize(d) /\ ~CreationStands =>
                  /\ awaiting'[d] = Len(promState) + 1
                  /\ promState' = Append(promState, "pending")
            /\ landmarker'[d] # landmarker[d] =>
                  promState[awaiting[d]] = "resolved"
            /\ fails'[d] # fails[d] =>
                  promState[awaiting[d]] = "rejected"]_vars

\* two detectors await the second creation, started after the first failed
C14_Witness ==
    /\ promState = <<"rejected", "pending">>
    /\ initPc[1] = "await" /\ initPc[2] = "await"
    /\ awaiting[1] = 2 /\ awaiting[2] = 2
    /\ landmarkerPromise = 2

\* C15: a detector attempts the initialization at most 3 times; after its
\* k-th failure, while mounted and k < 3, the next attempt is set k times the
\* base delay later; after the 3rd failure nothing more is scheduled
C15_ThreeAttemptsLinearBackoff ==
    /\ [](\A d \in Detectors :
            /\ calls[d] <= 3
            /\ fails[d] <= calls[d]
            /\ initPc[d] = "retry" =>
                  fails[d] < 3 /\ retryDelay[d] = fails[d] * RetryBaseMs
            /\ fails[d] = 3 => initPc[d] = "done")
    /\ [][\A d \in Detectors :
            /\ (fails'[d] = fails[d] + 1 /\ mounted[d] /\ fails'[d] < 3) =>
                  /\ initPc'[d] = "retry"
                  /\ retryDelay'[d] = fails'[d] * RetryBaseMs
            /\ initPc[d] = "done" =>
                  initPc'[d] = "done" /\ calls'[d] = calls[d]]_vars

\* a mounted detector whose three attempts failed, the last one set 2000 ms
\* after the second failure
C15_Witness ==
    /\ mounted[1]
    /\ calls[1] = 3 /\ fails[1] = 3
    /\ retryDelay[1] = 2 * RetryBaseMs
    /\ initPc[1] = "done"
    /\ landmarker[1] = "null"

\* C17: once the last permitted attempt of the initialization has failed,
\* some state that the UI observes reads "unavailable", from then on
C17_ExhaustedReportsUnavailable ==
    (mounted[1] /\ fails[1] = 3) => "unavailable" \in UiObservable

\* C13: once the cleanup of the camera effect has run at unmount, no tick is
\* scheduled and every camera stream the detector acquired has its tracks
\* stopped, in every interleaving with a pending getUserMedia or play
C13_TeardownStopsEverything ==
    torn => rafPending = 0 /\ streamState # "live"

\* C16: before the landmarker is installed no tick is scheduled, no
\* detection is called and the camera is not acquired; so it stays when all
\* attempts of the initialization have failed; detectForVideo is called
\* only with a video that has a frame size
C16_NothingBeforeReady ==
    /\ [](/\ landmarker[1] = "null" =>
                /\ rafPending = 0
                /\ detectCalls = 0
                /\ camPc = "off"
                /\ streamState = "none"
          /\ fails[1] = 3 =>
                landmarker[1] = "null" /\ initPc[1] = "done")
    /\ [][detectCalls' # detectCalls =>
              landmarker[1] = "ready" /\ videoReady]_vars

\* the third attempt succeeded and frames were detected on
C16_Witness ==
    /\ fails[1] = 2
    /\ landmarker[1] = "ready"
    /\ videoReady
    /\ detectCalls >= 1
    /\ rafPending = 1

\* C18: when getUserMedia or play has rejected, no tick is scheduled by
\* that start of the pipeline and the camera is not asked for again
C18_CameraFailureIsFinal ==
    /\ [](camPc = "failed" => rafPending = 0 /\ detectCalls = 0)
    /\ [][camPc = "failed" => camPc' = "failed"]_vars

\* play() rejected on a mounted detector: the stream is held, no loop runs
C18_Witness ==
    /\ camPc = "failed"
    /\ ~torn
    /\ srcObject
    /\ streamState = "live"
    /\ rafPending = 0

\* the frame of ClassifyFrames that f is a multiple of
BaseFrame(f) ==
    LET k == f.handSize \div 10
    IN  Frame(f.handSize \div k, [i \in DOMAIN f.d |-> f.d[i] \div k],
              f.pinchDist \div k, f.thumbDist \div k)

\* C21: the gesture of a hand is that of the same hand with handSize and
\* every measured distance multiplied by one positive factor
C21_ScaleInvariant ==
    (frame # NoFrame /\ frame.handSize # 10) =>
        /\ ScaleFrame(BaseFrame(frame), frame.handSize \div 10) = frame
        /\ pushed[Len(pushed)] = detectedGesture(BaseFrame(frame))

\* a pinch on its threshold side, seen three times as large
C21_Witness ==
    /\ frame # NoFrame
    /\ frame.handSize = 30
    /\ frame.pinchDist = 12
    /\ pushed[Len(pushed)] = "PINCH"
    /\ detectedGesture(BaseFrame(frame)) = "PINCH"

\* the gestures other than PINCH whose predicate holds of the hand f
ShapesOf(f) ==
    {g \in {"HEART", "VICTORY", "CLOSED_FIST", "OPEN_HAND"} :
        \/ g = "HEART" /\ isLove(f)
        \/ g = "VICTORY" /\ isVictory(f)
        \/ g = "CLOSED_FIST" /\ isFist(f)
        \/ g = "OPEN_HAND" /\ isOpen(f)}

\* C28: at most one of the HEART, VICTORY, CLOSED_FIST and OPEN_HAND
\* predicates holds of a hand; the order of the tests decides only for a
\* hand that pinches as well: HEART, VICTORY and CLOSED_FIST win over PINCH,
\* PINCH wins over OPEN_HAND
C28_ShapesExclusive ==
    frame # NoFrame =>
        /\ Cardinality(ShapesOf(frame)) <= 1
        /\ ~isPinch(frame) /\ ShapesOf(frame) = {} =>
              pushed[Len(pushed)] = "NONE"
        /\ ~isPinch(frame) /\ ShapesOf(frame) # {} =>
              pushed[Len(pushed)] \in ShapesOf(frame)
        /\ isPinch(frame) /\ ShapesOf(frame) \subseteq {"OPEN_HAND"} =>
              pushed[Len(pushed)] = "PINCH"
        /\ isPinch(frame) /\ ~(ShapesOf(frame) \subseteq {"OPEN_HAND"}) =>
              pushed[Len(pushed)] \in ShapesOf(frame)

\* an open hand that pinches is a PINCH
C28_Witness ==
    /\ frame # NoFrame
    /\ isPinch(frame)
    /\ ShapesOf(frame) = {"OPEN_HAND"}
    /\ pushed[Len(pushed)] = "PINCH"

\* the last n samples pushed are all the gesture g
LastPushedAre(n, g) ==
    /\ Len(pushed) >= n
    /\ \A i \in 1..n : pushed[Len(pushed) + 1 - i] = g

\* C25: when the raw gesture was G on 5 hand frames in a row, the stable
\* gesture published on the 5th is G, whatever the history held before
C25_FiveInARowAreStable ==
    \A g \in GestureType :
        (op = "hand" /\ LastPushedAre(5, g)) => handData.gesture = g

\* five pinches after three open hands and a fist that fell out of the window
C25_Witness ==
    /\ op = "hand"
    /\ pushed = <<"CLOSED_FIST", "OPEN_HAND", "OPEN_HAND", "OPEN_HAND",
                  "PINCH", "PINCH", "PINCH", "PINCH", "PINCH">>
    /\ gestureHistory = SubSeq(pushed, 2, 9)
    /\ handData.gesture = "PINCH"

Abs(n) == IF n < 0 THEN 0 - n ELSE n

\* this step is a tick that found a hand
HandTick == op' = "hand" /\ detectCalls' = detectCalls + 1

\* the raw position of the tick of this step: (1 - wrist.x, wrist.y), in
\* thousandths
RawXNext == 1000 - lastWrist'.x
RawYNext == lastWrist'.y

\* the factor, in tenths, of the tick of this step as the specification
\* gives it: 0.3 beyond a distance of 0.05, else 0.1
SpecFactor ==
    LET dx == RawXNext - smoothedX
        dy == RawYNext - smoothedY
    IN  IF dx * dx + dy * dy > 50 * 50 THEN 3 ELSE 1

\* C22: while the wrist rests, every tick brings each coordinate of the
\* smoothed cursor nearer to the raw position, never farther: what is left
\* of the distance is (1 - factor) times the distance before, to within one
\* thousandth, the step of the cursor kept here; a cursor on the raw
\* position stays on it
C22_HeldWristConverges ==
    [][(HandTick /\ frame # NoFrame /\ lastWrist' = lastWrist) =>
        LET ex == Abs(RawXNext - smoothedX)
            ey == Abs(RawYNext - smoothedY)
            exNext == Abs(RawXNext - smoothedX')
            eyNext == Abs(RawYNext - smoothedY')
        IN  /\ exNext <= ex
            /\ eyNext <= ey
            /\ Abs(10 * exNext - (10 - SpecFactor) * ex) < 10
            /\ Abs(10 * eyNext - (10 - SpecFactor) * ey) < 10
            /\ ex >= 10 => exNext < ex
            /\ ey >= 10 => eyNext < ey
            /\ (ex = 0 /\ ey = 0) => (exNext = 0 /\ eyNext = 0)]_vars

\* the wrist rested in a corner until the cursor came to lie on it
C22_Witness ==
    /\ op = "hand"
    /\ lastWrist = [x |-> 1000, y |-> 0]
    /\ detectCalls >= MaxHoldFrames
    /\ smoothedX = 0
    /\ smoothedY = 0

\* C26: the cursor starts at (0.5, 0.5); a tick with a hand moves each
\* coordinate to smoothed + f * (raw - smoothed), raw being
\* (1 - wrist.x, wrist.y) and f, the same for both, 0.3 when raw lies
\* farther than 0.05 from the smoothed position and 0.1 when not, also at
\* 0.05 exactly
C26_CursorUpdate ==
    /\ [](frame = NoFrame => smoothedX = 500 /\ smoothedY = 500)
    /\ [][HandTick =>
            /\ smoothedX' =
                  smoothedX + (SpecFactor * (RawXNext - smoothedX)) \div 10
            /\ smoothedY' =
                  smoothedY + (SpecFactor * (RawYNext - smoothedY)) \div 10
            /\ handData'.x = smoothedX'
            /\ handData'.y = smoothedY']_vars

\* the first hand lies at 0.05 from the centre, 0.03 across and 0.04 down:
\* the cursor goes a tenth of the way
C26_Witness ==
    /\ Len(pushed) = 1
    /\ lastWrist = [x |-> 470, y |-> 540]
    /\ smoothedX = 503
    /\ smoothedY = 504

\* C27: with the wrist inside the picture the smoothed and the published
\* cursor stay inside [0, 1]
C27_CursorInUnitSquare ==
    /\ smoothedX \in 0..1000
    /\ smoothedY \in 0..1000
    /\ handData.x \in 0..1000
    /\ handData.y \in 0..1000

\* the wrist went from one corner of the picture to the opposite one
C27_Witness ==
    /\ lastWrist = [x |-> 0, y |-> 1000]
    /\ smoothedX > 900
    /\ smoothedY > 900
    /\ handData.x = smoothedX
    /\ handData.y = smoothedY
    /\ detectCalls >= MaxHoldFrames

\* the loop of detector 1 runs: play() resolved and the detector is mounted
LoopRuns == camPc = "started" /\ ~torn

\* the steps in which a callback of requestAnimationFrame runs
TickRuns == op' \in {"inert", "notready", "hand", "nohand", "duplicate"}

\* C23: from the start of the loop to the teardown one callback is pending,
\* never more and never none; every tick that runs, whether the video has no
\* size yet, shows the frame already seen, or a new frame with or without a
\* hand, takes the pending callback and leaves one behind; detectForVideo is
\* called only by the tick that held the one pending callback
C23_OneTickPending ==
    /\ [](rafPending <= 1)
    /\ [](LoopRuns => rafPending = 1)
    /\ [][LoopRuns /\ TickRuns => /\ rafPending = 1
                                  /\ rafPending' = 1
                                  /\ op' # "inert"]_vars
    /\ [][detectCalls' # detectCalls =>
              /\ rafPending = 1
              /\ rafPending' = 1
              /\ detectCalls' = detectCalls + 1]_vars

\* the mounted detector has ticked on a video without size, on new frames
\* and on a frame already seen, and one callback is pending
C23_Witness ==
    /\ LoopRuns
    /\ videoReady
    /\ detectCalls >= MaxFrames
    /\ op = "duplicate"
    /\ rafPending = 1

\* detector d was unmounted before its landmarker was installed
TornEarly(d) ==
    /\ initPc[d] # "idle"
    /\ ~mounted[d]
    /\ landmarker[d] = "null"

\* C24: a detector unmounted during the delay of init, during the await of
\* the creation or while a retry timer runs never gets a landmarker, calls
\* initializeHandLandmarker no more and sets no further retry timer; init
\* ends at its next test of mounted; the camera of detector 1 is not asked
\* for and no tick is scheduled
C24_LateResultDiscarded ==
    /\ [](TornEarly(1) => /\ camPc = "off"
                          /\ streamState = "none"
                          /\ rafPending = 0
                          /\ detectCalls = 0)
    /\ [][\A d \in Detectors :
            TornEarly(d) =>
                /\ landmarker'[d] = "null"
                /\ calls'[d] = calls[d]
                /\ initPc[d] # "retry" => initPc'[d] \in {initPc[d], "done"}
                /\ initPc[d] = "retry" => initPc'[d] \in {"retry", "delay"}]_vars

\* detector 1 was unmounted while it awaited its second creation, which
\* then succeeded: init has ended and nothing was installed or started
C24_Witness ==
    /\ TornEarly(1)
    /\ promState = <<"rejected", "resolved">>
    /\ calls[1] = 2
    /\ initPc[1] = "done"
    /\ camPc = "off"
    /\ rafPending = 0

\* a frame of the interaction loop of the photo cloud runs in this step
FrameRuns == op' = "photoframe" /\ photoSteps' = photoSteps + 1

\* the distance on the screen, squared, of photo id at that frame
Reach2(id) == Dist2(screenPos'[id], handData)

\* C29: a frame of the photo cloud with a photo focused keeps the focus
\* unless the gesture is OPEN_HAND, which clears it, PINCH changing
\* nothing; a frame with no photo focused focuses a photo only under PINCH,
\* and then a photo no farther from the cursor than any other and nearer
\* than 0.2, and does so whenever a photo stands that near; no frame takes
\* the focus from one photo to another
C29_FocusProtocol ==
    [][FrameRuns =>
        /\ focusedPhotoId # NoPhoto =>
              /\ focusedPhotoId' \in {focusedPhotoId, NoPhoto}
              /\ focusedPhotoId' = NoPhoto <=> handData.gesture = "OPEN_HAND"
              /\ handData.gesture = "PINCH" => focusedPhotoId' = focusedPhotoId
        /\ focusedPhotoId = NoPhoto =>
              /\ handData.gesture # "PINCH" => focusedPhotoId' = NoPhoto
              /\ focusedPhotoId' # NoPhoto =>
                    /\ focusedPhotoId' \in PhotoIds
                    /\ \A id \in PhotoIds : Reach2(focusedPhotoId') <= Reach2(id)
                    /\ Reach2(focusedPhotoId') < FocusDist * FocusDist
              /\ (/\ handData.gesture = "PINCH"
                  /\ \E id \in PhotoIds : Reach2(id) < FocusDist * FocusDist)
                    => focusedPhotoId' # NoPhoto]_vars

\* a pinch focused the second photo, which stood just inside the reach
\* with the first on its edge; the hand then opened, and the frame under
\* OPEN_HAND released the photo
C29_Witness ==
    /\ op = "photoframe"
    /\ handData.gesture = "OPEN_HAND"
    /\ focusedPhotoId = NoPhoto
    /\ captionsPending[PhotoOrder[2]] = 1
    /\ captionsPending[PhotoOrder[1]] = 0
    /\ photoSteps = 2

\* C30: generateHolidayDescription is called for a photo only in a step
\* that focuses it while its description is missing, and a description once
\* stored is not replaced by the answer to a later or an earlier call
C30_CaptionWrittenOnce ==
    [][\A id \in PhotoIds :
          /\ captionsPending'[id] > captionsPending[id] =>
                /\ photos[id] = NoDescription
                /\ focusedPhotoId # id
                /\ focusedPhotoId' = id
          /\ photos[id] # NoDescription => photos'[id] = photos[id]]_vars

=============================================================================
